---- MODULE Spec2Model ----
(***************************************************************************)
(* Model of the two rainfall visualisation programs of the repository:     *)
(*   - the Hong Kong bar-chart program  (src/rainfall_visualizer.py)       *)
(*   - the world-map scatter program    (src/main.py, src/src/*.py)        *)
(*                                                                         *)
(* Rainfall amounts are counted in hundredths of a millimetre, so that     *)
(* 0.01 (the "Trace" amount), 49.9, 120.5 and 600.1 are all integers.      *)
(* A CSV field is a tagged token: an integer literal, a decimal literal,   *)
(* a text, or an empty field (which pandas reads as NaN).                  *)
(* matplotlib's FuncAnimation(frames=N, repeat=True) is modelled by its    *)
(* documented contract: an object holding an interval and an iterator over *)
(* range(N) that starts at 0 when the object is created and starts over    *)
(* when it is exhausted.                                                   *)
(***************************************************************************)
EXTENDS Integers, Sequences, FiniteSets, TLC

\* ------------------------------------------------------------------ bounds
\* longest data part of a bar-chart CSV file (rows after the header lines)
MaxRows == 3
\* longest data part of a map CSV file (records after the header line)
MaxMapRows == 2
\* longest data part of a file given to the loader on its own
MaxLoadRows == 2
\* largest amount given to get_bar_color on its own, in hundredths of a mm
MaxProbe == 61000
\* the amounts given to the point size on its own, in hundredths of a mm:
\* from -MinSizeProbe up to MaxSizeProbe
MinSizeProbe == 500
MaxSizeProbe == 100000

\* ------------------------------------------------------- program constants
\* hundredths per millimetre: the smallest amount the code produces is 0.01
Unit == 100
\* the amount parse_rainfall gives for 'Trace' (0.01 mm)
TRACE == 1
\* get_bar_color: rainfall_mm < 50
LOW == 5000
\* get_bar_color: rainfall_mm <= 600
HIGH == 60000
\* main: create_animation(1884, 2025, interval=1500)
START_YEAR == 1884
END_YEAR == 2025
INTERVAL == 1500
\* update_yearly_frame: labels of bars lower than 30 are put at 30
LABEL_FLOOR == 3000
\* update_yearly_frame: other labels are put 15 above the bar
LABEL_GAP == 1500

\* --------------------------------------------------------------- CSV fields
Num(n) == [kind |-> "int", num |-> n, txt |-> ""]
Dec(h) == [kind |-> "dec", num |-> h, txt |-> ""]
Txt(s) == [kind |-> "text", num |-> 0, txt |-> s]
Empty == [kind |-> "empty", num |-> 0, txt |-> ""]

Row(y, m, d, r) == [Year |-> y, Month |-> m, Day |-> d, Rainfall_mm |-> r]

\* The rows a bar-chart CSV file is made of in this model.
HKRows ==
    { Row(Num(1990), Num(6), Num(15), Dec(12050)),
      Row(Num(1990), Num(6), Num(20), Dec(3000)),
      Row(Num(1990), Num(1), Num(5), Txt("Trace")),
      Row(Num(1991), Num(2), Num(28), Dec(70000)),
      Row(Num(1989), Num(12), Num(31), Dec(4990)),
      Row(Num(1990), Num(2), Num(30), Dec(1000)),
      Row(Txt("*** Unavailable"), Empty, Empty, Empty),
      Row(Num(1990), Txt("abc"), Num(15), Dec(500)),
      Row(Num(1990), Num(6), Txt("x"), Dec(500)),
      Row(Num(1990), Num(7), Num(1), Txt("***")),
      Row(Num(1990), Num(3), Num(3), Dec(-500)) }

RECURSIVE SeqsUpTo(_, _)
SeqsUpTo(S, n) ==
    IF n = 0 THEN {<<>>}
    ELSE LET shorter == SeqsUpTo(S, n - 1)
         IN  shorter \cup {Append(s, x) : s \in {t \in shorter : Len(t) = n - 1}, x \in S}

HKFiles == SeqsUpTo(HKRows, MaxRows)

\* one record of the map data frame
MapRec(y, m, lat, lon, r, c) ==
    [year |-> y, month |-> m, latitude |-> lat, longitude |-> lon, rainfall |-> r, city |-> c]

\* The records a map CSV file is made of in this model (degrees in
\* ten-thousandths).
MapRows ==
    { MapRec(2000, 1, 515074, -1278, 5000, "London"),
      MapRec(2000, 1, 356762, 1396503, 15000, "Tokyo"),
      MapRec(2000, 3, 515074, -1278, 0, "London"),
      MapRec(2001, 12, 356762, 1396503, 500, "Tokyo"),
      MapRec(2001, 2, 515074, -1278, 100000, "London"),
      MapRec(2000, 3, 356762, 1396503, -500, "Tokyo"),
      MapRec(2001, 13, 515074, -1278, 1000, "London") }

\* a CSV file with a header line and at least one record
MapFiles == SeqsUpTo(MapRows, MaxMapRows) \ {<<>>}

\* the draws of the random generator, one stream per seed
Seeds == {1, 2}

\* --year and --month of the command line (2020 and 7 when not given)
StaticPeriods == {<<2020, 7>>, <<2000, 1>>, <<2000, 2>>}

\* ------------------------------------------------------------------- state
VARIABLES
    csv_exists,        \* bar chart: whether daily_HKO_RF_ALL.csv exists
    csv_rows,          \* bar chart: the data rows of the file
    df,                \* HKRainfallVisualizer.df (<<>> while None)
    monthly_data,      \* HKRainfallVisualizer.monthly_data (<<>> while None)
    years_to_animate,  \* HKRainfallVisualizer.years_to_animate
    base_interval,     \* HKRainfallVisualizer.base_interval
    current_speed,     \* HKRainfallVisualizer.current_speed (1, 2 or 3)
    anim,              \* HKRainfallVisualizer.anim, a FuncAnimation
    btn_color,         \* colours of the three speed buttons
    bar_frame,         \* what the axes show: the last rendered bar frame
    shown_index,       \* the frame index animate() was last called with (-1: none)
    prev_index,        \* the frame index of the call before that one (-1: none)
    hk_pc,             \* position of the bar-chart main()
    hk_exit,           \* exit status of the bar-chart process (-1: running)
    hk_msgs,           \* user-facing messages the bar-chart process printed
    hk_last,           \* the last operation of the bar-chart program
    data_exists,       \* map: whether the file of --data exists
    data_rows,         \* map: the records of that file
    args,              \* map: the parsed command line
    data,              \* RainfallDataLoader.data (<<>> while None)
    total_frames,      \* RainfallMapAnimator.total_frames
    scatter,           \* the points the map shows: offsets, array, sizes
    title,             \* the title of the map axes
    map_anim,          \* the FuncAnimation create_animation made
    map_frame,         \* the frame index animate_frame was last called with (-1: none)
    map_period,        \* the year and month that call computed (<<0, 0>>: none)
    saved_frames,      \* the number of frames written to the file of --save
    map_pc,            \* position of the map main()
    map_exit,          \* exit status of the map process (-1: running)
    map_last,          \* the last operation of the map program
    probe_value,       \* the amount get_bar_color is called with on its own
    probe_color,       \* the colour that call returned ("" before the call)
    probe_size         \* the point sizes the two np.clip lines gave for probe_value

hk_vars == <<csv_exists, csv_rows, df, monthly_data, years_to_animate, base_interval,
             current_speed, anim, btn_color, bar_frame, shown_index, prev_index,
             hk_pc, hk_exit, hk_msgs, hk_last>>

map_vars == <<data_exists, data_rows, args, data, total_frames, scatter, title, map_anim,
              map_frame, map_period, saved_frames, map_pc, map_exit, map_last>>

probe_vars == <<probe_value, probe_color, probe_size>>

vars == <<hk_vars, map_vars, probe_vars>>

\* ------------------------------------------------------- bar chart: loader
\* str(value).isdigit(), line 48: true of a non-negative integer literal only
\* (a text, 'nan' and '-5' are not all digits)
IsDigitStr(f) == f.kind = "int" /\ f.num >= 0

\* astype(int), lines 49-51: raises on a text and on NaN
CanCastInt(f) == f.kind = "int"

NaN == [nan |-> TRUE, v |-> 0]
Float(h) == [nan |-> FALSE, v |-> h]

IsLeap(y) == (y % 4 = 0 /\ y % 100 # 0) \/ y % 400 = 0

DaysInMonth(y, m) ==
    IF m = 2 THEN (IF IsLeap(y) THEN 29 ELSE 28)
    ELSE IF m \in {4, 6, 9, 11} THEN 30 ELSE 31

NaT == [nat |-> TRUE, ymd |-> 0]

\* pd.to_datetime(df[['Year', 'Month', 'Day']], errors='coerce'), line 67:
\* the calendar date, or NaT when year, month, day are no date of the calendar
\* (or lie outside the years a pandas timestamp can hold)
to_datetime(y, m, d) ==
    IF y \in 1678..2261 /\ m \in 1..12 /\ d \in 1..DaysInMonth(y, m)
    THEN [nat |-> FALSE, ymd |-> y * 10000 + m * 100 + d]
    ELSE NaT

\* the second literal of line 57: the bytes of the Chinese word for a trace
\* amount, which the source file holds as six accented Latin letters (spelt
\* in plain letters here)
TRACE_ZH == "weiliang"

\* variant: no amount for the trace sentinels
parse_rainfall_no_trace(val) ==
    IF val.kind = "empty" \/ (val.kind = "text" /\ val.txt = "***") THEN NaN
    ELSE IF val.kind = "dec" THEN Float(val.num)
    ELSE IF val.kind = "int" THEN Float(val.num * Unit)
    ELSE NaN

\* parse_rainfall, lines 54-62: pd.isna or '***', then the two trace
\* literals, then float(val), NaN when float raises
parse_rainfall(val) ==
    IF val.kind = "empty" \/ (val.kind = "text" /\ val.txt = "***") THEN NaN
    ELSE IF val.kind = "text" /\ val.txt \in {"Trace", TRACE_ZH} THEN Float(TRACE)
    ELSE IF val.kind = "dec" THEN Float(val.num)
    ELSE IF val.kind = "int" THEN Float(val.num * Unit)
    ELSE NaN

\* one row after lines 49-67: integers, parsed rainfall, derived date
Convert(row) ==
    [Year |-> row.Year.num, Month |-> row.Month.num, Day |-> row.Day.num,
     Rainfall_mm |-> parse_rainfall(row.Rainfall_mm),
     Date |-> to_datetime(row.Year.num, row.Month.num, row.Day.num)]

\* line 48: the rows whose Year is all digits
YearFiltered(rows) == SelectSeq(rows, LAMBDA r : IsDigitStr(r.Year))

\* lines 50-51 raise when a row that passed line 48 has a Month or Day that
\* is no integer
CastRaises(rows) ==
    \E i \in 1..Len(rows) : ~CanCastInt(rows[i].Month) \/ ~CanCastInt(rows[i].Day)

MapSeq(s, Op(_)) == [i \in 1..Len(s) |-> Op(s[i])]

RECURSIVE SumSeq(_)
SumSeq(s) == IF s = <<>> THEN 0 ELSE Head(s) + SumSeq(Tail(s))

\* variant: dropna(subset=['Date']) alone, keeping the rows with a missing amount
dropna_date_only(recs) == SelectSeq(recs, LAMBDA r : ~r.Date.nat)

\* line 70: dropna(subset=['Date', 'Rainfall_mm'])
dropna(recs) == SelectSeq(recs, LAMBDA r : ~r.Date.nat /\ ~r.Rainfall_mm.nan)

\* HKRainfallVisualizer.load_data, lines 36-79: the value returned and the
\* value self.df is left with.  Every exception of lines 42-75 ends in the
\* handler of line 77.
load_data(exists, rows) ==
    IF ~exists THEN [ok |-> FALSE, df |-> <<>>]
    ELSE IF CastRaises(YearFiltered(rows)) THEN [ok |-> FALSE, df |-> YearFiltered(rows)]
    ELSE [ok |-> TRUE, df |-> dropna(MapSeq(YearFiltered(rows), Convert))]

\* --------------------------------------------------- bar chart: aggregator
RECURSIVE SumRain(_)
SumRain(recs) ==
    IF recs = <<>> THEN 0 ELSE Head(recs).Rainfall_mm.v + SumRain(Tail(recs))

Group(recs, y, m) == SelectSeq(recs, LAMBDA r : r.Year = y /\ r.Month = m)

Periods(recs) == {<<recs[i].Year, recs[i].Month>> : i \in 1..Len(recs)}

PeriodBefore(p, q) == p[1] < q[1] \/ (p[1] = q[1] /\ p[2] < q[2])

RECURSIVE SortedPeriods(_)
SortedPeriods(S) ==
    IF S = {} THEN <<>>
    ELSE LET least == CHOOSE p \in S : \A q \in S \ {p} : PeriodBefore(p, q)
         IN  <<least>> \o SortedPeriods(S \ {least})

\* variant: 'first' in place of 'sum'
agg_first(recs) == Head(recs).Rainfall_mm.v

\* .agg({'Rainfall_mm': 'sum', ...}), line 87
agg_sum(recs) == SumRain(recs)

\* one row of the grouped frame, lines 86-95
Summary(recs, p) ==
    [Year |-> p[1], Month |-> p[2],
     Rainfall_mm |-> agg_sum(Group(recs, p[1], p[2])),
     Date |-> Head(Group(recs, p[1], p[2])).Date.ymd,
     YearMonth |-> p]

\* groupby(['Year', 'Month']), line 86: the keys of the groups
groupby(recs) == Periods(recs)

\* variant: the order of the day of the month alone
sort_by_day(s) == SortSeq(s, LAMBDA a, b : a.Date % 100 < b.Date % 100)

\* sort_values('Date'), line 98
sort_values(s) == SortSeq(s, LAMBDA a, b : a.Date < b.Date)

\* HKRainfallVisualizer.calculate_monthly_totals, lines 81-103
calculate_monthly_totals(recs) ==
    sort_values(MapSeq(SortedPeriods(groupby(recs)), LAMBDA p : Summary(recs, p)))

\* ----------------------------------------------- bar chart: frame renderer
blues == <<"#87CEEB", "#4682B4", "#1E90FF", "#0000FF", "#000080">>

Min(a, b) == IF a < b THEN a ELSE b

\* variant: the band ends 50 and 600 left out of the gradient band
get_bar_color_exclusive(rainfall_mm) ==
    IF rainfall_mm <= LOW THEN "#FFD700"
    ELSE IF rainfall_mm < HIGH
         THEN blues[Min(((rainfall_mm - LOW) * (Len(blues) - 1)) \div (HIGH - LOW),
                        Len(blues) - 1) + 1]
    ELSE "#000000"

\* variant: the position scaled by the number of colours, not by one less
get_bar_color_five_steps(rainfall_mm) ==
    IF rainfall_mm < LOW THEN "#FFD700"
    ELSE IF rainfall_mm <= HIGH
         THEN blues[Min(((rainfall_mm - LOW) * Len(blues)) \div (HIGH - LOW),
                        Len(blues) - 1) + 1]
    ELSE "#000000"

\* HKRainfallVisualizer.get_bar_color, lines 125-138 (blues is indexed from 1
\* here, from 0 in the code)
get_bar_color(rainfall_mm) ==
    IF rainfall_mm < LOW THEN "#FFD700"
    ELSE IF rainfall_mm <= HIGH
         THEN blues[Min(((rainfall_mm - LOW) * (Len(blues) - 1)) \div (HIGH - LOW),
                        Len(blues) - 1) + 1]
    ELSE "#000000"

\* f'{value:.0f}', line 221: the nearest whole number of millimetres, a tie
\* going to the even one
Format0f(value) ==
    LET q == value \div Unit
        r == value % Unit
    IN  IF 2 * r < Unit THEN q
        ELSE IF 2 * r > Unit THEN q + 1
        ELSE IF q % 2 = 0 THEN q ELSE q + 1

\* lines 151: the summaries of the year
year_data(md, year) == SelectSeq(md, LAMBDA s : s.Year = year)

\* variant: no bar for a month without summary
month_value_skip_missing(yd, month) ==
    LET month_data == SelectSeq(yd, LAMBDA s : s.Month = month)
    IN  IF Len(month_data) > 0 THEN <<month_data[1].Rainfall_mm>> ELSE <<>>

\* lines 165-169: the value of one month, 0.0 when the month has no summary
month_value(yd, month) ==
    LET month_data == SelectSeq(yd, LAMBDA s : s.Month = month)
    IN  IF Len(month_data) > 0 THEN <<month_data[1].Rainfall_mm>> ELSE <<0>>

RECURSIVE rainfall_values_from(_, _)
\* lines 161-172: the loop over months, from month on
rainfall_values_from(yd, month) ==
    IF month > 12 THEN <<>>
    ELSE month_value(yd, month) \o rainfall_values_from(yd, month + 1)

rainfall_values(yd) == rainfall_values_from(yd, 1)

SeqMax(s) == CHOOSE x \in {s[i] : i \in 1..Len(s)} : \A j \in 1..Len(s) : s[j] <= x
SeqMin(s) == CHOOSE x \in {s[i] : i \in 1..Len(s)} : \A j \in 1..Len(s) : x <= s[j]

\* variant: the last position holding x
IndexOfLast(s, x) == (CHOOSE i \in 1..Len(s) : s[i] = x /\ \A j \in (i + 1)..Len(s) : s[j] # x) - 1

\* list.index, lines 193 and 195: the first position holding x (from 0)
IndexOf(s, x) == (CHOOSE i \in 1..Len(s) : s[i] = x /\ \A j \in 1..(i - 1) : s[j] # x) - 1

\* lines 210-224: the label of one bar
Label(value) ==
    [y |-> IF value < LABEL_FLOOR THEN LABEL_FLOOR ELSE value + LABEL_GAP,
     text |-> Format0f(value)]

NoFrame == [drawn |-> FALSE, year |-> 0, values |-> <<>>, colors |-> <<>>, labels |-> <<>>,
            total |-> 0, avg |-> [num |-> 0, den |-> 12], wettest |-> 0, driest |-> 0]

\* HKRainfallVisualizer.update_yearly_frame, lines 140-224: what the axes
\* show after the call.  ax.clear() empties them; a year without summaries
\* returns right after that.
update_yearly_frame(md, year) ==
    LET yd == year_data(md, year)
        vals == rainfall_values(yd)
    IN  IF Len(yd) = 0 THEN [NoFrame EXCEPT !.year = year]
        ELSE [drawn |-> TRUE, year |-> year,
              values |-> vals,
              colors |-> MapSeq(vals, get_bar_color),
              labels |-> MapSeq(vals, Label),
              total |-> SumSeq(vals),
              avg |-> [num |-> SumSeq(vals), den |-> 12],
              wettest |-> IndexOf(vals, SeqMax(vals)),
              driest |-> IndexOf(vals, SeqMin(vals))]

\* ---------------------------------------------- bar chart: animation driver
\* FuncAnimation(fig, animate, frames=N, interval=..., repeat=True): a new
\* animation object, its frame iterator at the start of range(N)
FuncAnimation(interval) == [interval |-> interval, frame_seq |-> 0, running |-> TRUE]

NoAnimation == [interval |-> 0, frame_seq |-> 0, running |-> FALSE]

\* HKRainfallVisualizer.update_button_colors, lines 370-388
update_button_colors(speed) ==
    [b \in 1..3 |-> IF b = speed THEN "lightgreen" ELSE "lightgray"]

RECURSIVE SortedInts(_)
SortedInts(S) ==
    IF S = {} THEN <<>>
    ELSE LET least == CHOOSE x \in S : \A y \in S : x <= y
         IN  <<least>> \o SortedInts(S \ {least})

\* lines 263-264: the years of monthly_data between start_year and end_year
years_in_range(md, start_year, end_year) ==
    SortedInts({md[i].Year : i \in 1..Len(md)} \cap start_year..end_year)

\* the speeds of the three buttons, lines 339-341
Speeds == {1, 2, 3}

HKInit ==
    /\ csv_exists \in BOOLEAN
    /\ csv_rows \in (IF csv_exists THEN HKFiles ELSE {<<>>})
    /\ df = <<>>
    /\ monthly_data = <<>>
    /\ years_to_animate = <<>>
    /\ base_interval = 0
    /\ current_speed = 1
    /\ anim = NoAnimation
    /\ btn_color = [b \in 1..3 |-> "lightgray"]
    /\ bar_frame = NoFrame
    /\ shown_index = -1
    /\ prev_index = -1
    /\ hk_pc = "start"
    /\ hk_exit = -1
    /\ hk_msgs = {}
    /\ hk_last = "none"

\* main, lines 395-400: load_data, and the return when it failed.  main
\* returns None there, so the process ends with status 0.
HKLoad ==
    /\ hk_pc = "start"
    /\ LET res == load_data(csv_exists, csv_rows)
       IN  /\ df' = res.df
           /\ IF res.ok
              THEN /\ hk_pc' = "loaded"
                   /\ UNCHANGED <<hk_exit, hk_msgs>>
              ELSE /\ hk_pc' = "exit"
                   /\ hk_exit' = 0
                   /\ hk_msgs' = hk_msgs \cup {"Error loading data",
                                               "Failed to load data. Please check the CSV file."}
    /\ hk_last' = "load_data"
    /\ UNCHANGED <<csv_exists, csv_rows, monthly_data, years_to_animate, base_interval,
                   current_speed, anim, btn_color, bar_frame, shown_index, prev_index>>

\* main, lines 402-406: calculate_monthly_totals, setup_color_mapping and
\* print_statistics.  With no monthly total print_statistics raises (the
\* strftime of the missing minimum date, line 312), outside any handler: the
\* process ends with status 1.
HKAggregate ==
    /\ hk_pc = "loaded"
    /\ monthly_data' = calculate_monthly_totals(df)
    /\ IF Len(monthly_data') = 0
       THEN hk_pc' = "exit" /\ hk_exit' = 1
       ELSE hk_pc' = "aggregated" /\ UNCHANGED hk_exit
    /\ hk_last' = "calculate_monthly_totals"
    /\ UNCHANGED <<csv_exists, csv_rows, df, years_to_animate, base_interval,
                   current_speed, anim, btn_color, bar_frame, shown_index, prev_index,
                   hk_msgs>>

\* main, lines 416-421, with create_yearly_bar_animation, lines 258-296, and
\* add_speed_controls, lines 324-344
HKCreateAnimation ==
    /\ hk_pc = "aggregated"
    /\ LET years == years_in_range(monthly_data, START_YEAR, END_YEAR)
       IN  IF Len(years) = 0
           THEN /\ hk_pc' = "exit"
                /\ hk_exit' = 0
                /\ hk_msgs' = hk_msgs \cup {"Failed to create animation."}
                /\ UNCHANGED <<years_to_animate, base_interval, current_speed, anim,
                               btn_color>>
           ELSE /\ years_to_animate' = years
                /\ base_interval' = INTERVAL
                /\ current_speed' = 1
                /\ anim' = FuncAnimation(INTERVAL)
                /\ btn_color' = update_button_colors(1)
                /\ hk_pc' = "show"
                /\ UNCHANGED <<hk_exit, hk_msgs>>
    /\ hk_last' = "create_animation"
    /\ UNCHANGED <<csv_exists, csv_rows, df, monthly_data, bar_frame, shown_index, prev_index>>

\* variant: repeat=False, the animation stops after the last frame
next_frame_no_repeat(a, n) ==
    IF a.frame_seq + 1 < n THEN [a EXCEPT !.frame_seq = a.frame_seq + 1]
    ELSE [a EXCEPT !.running = FALSE]

\* the frame iterator of a FuncAnimation over range(n) with repeat=True, after
\* it gave a frame: the next index, and the first one again after the last
\* (lines 290-291)
next_frame(a, n) == [a EXCEPT !.frame_seq = (a.frame_seq + 1) % n]

\* one timer tick of the running animation: animate(frame), lines 285-288 (and
\* 356-359 after a speed change), with the next frame of the iterator
HKTick ==
    /\ hk_pc = "show"
    /\ anim.running
    /\ LET frame == anim.frame_seq
       IN  IF frame < Len(years_to_animate)
           THEN /\ bar_frame' = update_yearly_frame(monthly_data, years_to_animate[frame + 1])
                /\ shown_index' = frame
                /\ prev_index' = shown_index
           ELSE UNCHANGED <<bar_frame, shown_index, prev_index>>
    /\ anim' = next_frame(anim, Len(years_to_animate))
    /\ hk_last' = "tick"
    /\ UNCHANGED <<csv_exists, csv_rows, df, monthly_data, years_to_animate, base_interval,
                   current_speed, btn_color, hk_pc, hk_exit, hk_msgs>>

\* HKRainfallVisualizer.set_speed, lines 346-368: a click on a speed button.
\* The running animation is paused and dropped, and a new FuncAnimation takes
\* its place.
set_speed(speed) ==
    /\ current_speed' = speed
    /\ anim' = FuncAnimation(base_interval \div speed)
    /\ btn_color' = update_button_colors(speed)

HKSetSpeed ==
    /\ hk_pc = "show"
    /\ \E speed \in Speeds : set_speed(speed)
    /\ hk_last' = "set_speed"
    /\ UNCHANGED <<csv_exists, csv_rows, df, monthly_data, years_to_animate, base_interval,
                   bar_frame, shown_index, prev_index, hk_pc, hk_exit, hk_msgs>>

\* the user closes the window: plt.show() returns, line 419, and main ends
HKClose ==
    /\ hk_pc = "show"
    /\ hk_pc' = "exit"
    /\ hk_exit' = 0
    /\ hk_last' = "close"
    /\ UNCHANGED <<csv_exists, csv_rows, df, monthly_data, years_to_animate, base_interval,
                   current_speed, anim, btn_color, bar_frame, shown_index, prev_index,
                   hk_msgs>>

\* ------------------------------------------------------------ map: loader
\* generate_sample_data, lines 35-44: the sample locations
locations ==
    << [city |-> "London", lat |-> 515074, lon |-> -1278],
       [city |-> "New York", lat |-> 407128, lon |-> -740060],
       [city |-> "Tokyo", lat |-> 356762, lon |-> 1396503],
       [city |-> "Sydney", lat |-> -338688, lon |-> 1512093],
       [city |-> "Mumbai", lat |-> 190760, lon |-> 728777],
       [city |-> "Cairo", lat |-> 300444, lon |-> 312357],
       [city |-> "Sao Paulo", lat |-> -235505, lon |-> -466333],
       [city |-> "Moscow", lat |-> 557558, lon |-> 376176] >>

\* np.random.uniform(lo, hi) in hundredths of a millimetre: one of eleven
\* evenly spread values, chosen by the draw u in 0..10
Uniform(lo, hi, u) == lo * Unit + ((hi - lo) * Unit * u) \div 10

\* RainfallDataLoader._get_seasonal_rainfall, lines 68-89
get_seasonal_rainfall(month, latitude, u) ==
    IF latitude > 400000
    THEN (IF month \in {6, 7, 8} THEN Uniform(60, 120, u) ELSE Uniform(30, 80, u))
    ELSE IF latitude > 0
    THEN (IF month \in {6, 7, 8, 9} THEN Uniform(100, 300, u) ELSE Uniform(10, 60, u))
    ELSE (IF month \in {12, 1, 2} THEN Uniform(80, 150, u) ELSE Uniform(40, 90, u))

\* the two draws made for one record: u in 0..10 for the uniform base, z in
\* -4..4 standard deviations for the normal variation
DrawU(seed, year, month, l) == (seed * 7919 + year * 31 + month * 17 + l * 13) % 11
DrawZ(seed, year, month, l) == ((seed * 104729 + year * 7 + month * 3 + l * 5) % 9) - 4

Max(a, b) == IF a > b THEN a ELSE b

\* lines 51-54: base, variation = normal(0, 0.3 * base), max(0, base + variation)
sample_rainfall(seed, year, month, l) ==
    LET base_rainfall == get_seasonal_rainfall(month, locations[l].lat,
                                               DrawU(seed, year, month, l))
        variation == (3 * base_rainfall * DrawZ(seed, year, month, l)) \div 10
    IN  Max(0, base_rainfall + variation)

\* A data frame of the map loader: the records of a CSV file, or the sample
\* frame, which is held by the seed of its draws (its 9600 records are
\* SampleRecords below)
CsvFrame(rows) == [sample |-> FALSE, seed |-> 0, rows |-> rows]
SampleFrame(seed) == [sample |-> TRUE, seed |-> seed, rows |-> <<>>]

\* self.data = None, line 14
NoData == CsvFrame(<<>>)

\* lines 49-63: the records generated for one year and month, one per location
SamplePeriod(seed, year, month) ==
    [l \in 1..Len(locations) |->
        MapRec(year, month, locations[l].lat, locations[l].lon,
               sample_rainfall(seed, year, month, l), locations[l].city)]

\* lines 31-32 and 47-49: one record per year of 1924..2023, month and
\* location, in that order
SampleRecords(seed) ==
    [i \in 1..(100 * 12 * Len(locations)) |->
        SamplePeriod(seed, 1924 + (i - 1) \div (12 * Len(locations)),
                     (((i - 1) \div Len(locations)) % 12) + 1)[((i - 1) % Len(locations)) + 1]]

\* RainfallDataLoader.generate_sample_data, lines 26-66
generate_sample_data(seed) == SampleFrame(seed)

\* RainfallDataLoader.load_data, lines 16-24: the data of the file, or sample
\* data when the file does not exist
map_load_data(exists, rows, seed) ==
    IF exists THEN CsvFrame(rows) ELSE generate_sample_data(seed)

\* the records of a frame, in order
Records(d) == IF d.sample THEN SampleRecords(d.seed) ELSE d.rows

\* RainfallDataLoader.get_data_for_period, lines 91-96: the records of the
\* year and month (for the sample frame those generated for them)
get_data_for_period(d, year, month) ==
    IF d.sample
    THEN (IF year \in 1924..2023 /\ month \in 1..12
          THEN SamplePeriod(d.seed, year, month) ELSE <<>>)
    ELSE SelectSeq(d.rows, LAMBDA r : r.year = year /\ r.month = month)

\* RainfallDataLoader.get_date_range, lines 98-105
get_date_range(d) ==
    IF d.sample THEN <<1924, 2023>>
    ELSE LET ys == {d.rows[i].year : i \in 1..Len(d.rows)}
         IN  <<CHOOSE y \in ys : \A z \in ys : y <= z, CHOOSE y \in ys : \A z \in ys : y >= z>>

\* ---------------------------------------------------------- map: animator
\* np.clip(rainfall * 2, 20, 200), lines 107 and 133
clip(x, lo, hi) == IF x < lo THEN lo ELSE IF x > hi THEN hi ELSE x

\* line 107, animate_frame: sizes = np.clip(rainfall * 2, 20, 200)
point_size(rainfall) == clip(rainfall * 2, 20 * Unit, 200 * Unit)

\* variant: no least size
static_point_size_no_floor(rainfall) == Min(rainfall * 2, 200 * Unit)

\* line 133, show_static_frame: sizes = np.clip(rainfall * 2, 20, 200)
static_point_size(rainfall) == clip(rainfall * 2, 20 * Unit, 200 * Unit)

\* ax.scatter([], [], c=[], s=[]), line 69: a scatter plot without points
EmptyScatter == [offsets |-> <<>>, array |-> <<>>, sizes |-> <<>>]

\* the title setup_map gives the axes, line 51
BaseTitle == [month |-> 0, year |-> 0]

\* lines 130-138: the points show_static_frame draws for the records of a
\* period
StaticPoints(frame_data) ==
    [offsets |-> MapSeq(frame_data, LAMBDA r : <<r.longitude, r.latitude>>),
     array |-> MapSeq(frame_data, LAMBDA r : r.rainfall),
     sizes |-> MapSeq(frame_data, LAMBDA r : static_point_size(r.rainfall))]

\* lines 102-112: the points animate_frame draws for the records of a period
Points(frame_data) ==
    [offsets |-> MapSeq(frame_data, LAMBDA r : <<r.longitude, r.latitude>>),
     array |-> MapSeq(frame_data, LAMBDA r : r.rainfall),
     sizes |-> MapSeq(frame_data, LAMBDA r : point_size(r.rainfall))]

\* lines 93-94: the year of a frame index
frame_year(d, frame) == get_date_range(d)[1] + frame \div 12

\* variant: the month counted from 0
frame_month_from_zero(frame) == frame % 12

\* line 95: the month of a frame index
frame_month(frame) == (frame % 12) + 1

\* RainfallMapAnimator.animate_frame, lines 90-120: the scatter plot and the
\* title after the call, given those before it.  With no record for the
\* period nothing is touched.
animate_frame(view, d, frame) ==
    LET frame_data == get_data_for_period(d, frame_year(d, frame), frame_month(frame))
    IN  IF Len(frame_data) # 0
        THEN [scatter |-> Points(frame_data),
              title |-> [month |-> frame_month(frame), year |-> frame_year(d, frame)]]
        ELSE view

\* RainfallMapAnimator.show_static_frame, lines 122-152, on the fresh axes of
\* setup_map
show_static_frame(d, year, month) ==
    LET frame_data == get_data_for_period(d, year, month)
    IN  IF Len(frame_data) # 0
        THEN [scatter |-> StaticPoints(frame_data),
              title |-> [month |-> month, year |-> year]]
        ELSE [scatter |-> EmptyScatter, title |-> BaseTitle]

RECURSIVE save(_, _, _, _)
\* anim.save(save_path, writer='pillow', fps=5), line 85: the frames from
\* index lo up to hi - 1, each drawn once and in order (the range is halved
\* to keep the evaluation shallow; the order of the calls is that of the loop)
save(view, d, lo, hi) ==
    IF lo >= hi THEN view
    ELSE IF hi = lo + 1 THEN animate_frame(view, d, lo)
    ELSE LET mid == (lo + hi) \div 2
         IN  save(save(view, d, lo, mid), d, mid, hi)

\* main.py, lines 29-40: the command lines of the model
ArgsSet ==
    {[static |-> TRUE, save |-> sv, year |-> p[1], month |-> p[2]] :
        p \in StaticPeriods, sv \in BOOLEAN}
    \cup {[static |-> FALSE, save |-> sv, year |-> 2020, month |-> 7] : sv \in BOOLEAN}

MapInit ==
    /\ data_exists \in BOOLEAN
    /\ data_rows \in (IF data_exists THEN MapFiles ELSE {<<>>})
    /\ args \in ArgsSet
    /\ data = NoData
    /\ total_frames = 0
    /\ scatter = EmptyScatter
    /\ title = BaseTitle
    /\ map_anim = NoAnimation
    /\ map_frame = -1
    /\ map_period = <<0, 0>>
    /\ saved_frames = 0
    /\ map_pc = "start"
    /\ map_exit = -1
    /\ map_last = "none"

\* main.py main, lines 52-59: the loader, load_data, the summary, the animator
MapLoad ==
    /\ map_pc = "start"
    /\ \E seed \in Seeds : data' = map_load_data(data_exists, data_rows, seed)
    /\ map_pc' = "loaded"
    /\ map_last' = "load_data"
    /\ UNCHANGED <<data_exists, data_rows, args, total_frames, scatter, title, map_anim,
                   map_frame, map_period, saved_frames, map_exit>>

\* main.py main, lines 62-67: --static, show_static_frame and plt.show()
MapStatic ==
    /\ map_pc = "loaded"
    /\ args.static
    /\ LET view == show_static_frame(data, args.year, args.month)
       IN  scatter' = view.scatter /\ title' = view.title
    /\ map_pc' = "show_static"
    /\ map_last' = "show_static_frame"
    /\ UNCHANGED <<data_exists, data_rows, args, data, total_frames, map_anim, map_frame,
                   map_period, saved_frames, map_exit>>

\* variant: plt.show() after create_animation whether or not a file was saved
MapCreateAnimation_show_always ==
    /\ map_pc = "loaded"
    /\ ~args.static
    /\ \E seed \in Seeds :
          LET d == map_load_data(data_exists, data_rows, seed)
              range == get_date_range(d)
              n == (range[2] - range[1] + 1) * 12
              view == IF args.save
                      THEN save([scatter |-> EmptyScatter, title |-> BaseTitle], d, 0, n)
                      ELSE [scatter |-> EmptyScatter, title |-> BaseTitle]
          IN  /\ data' = d
              /\ total_frames' = n
              /\ scatter' = view.scatter
              /\ title' = view.title
              /\ saved_frames' = IF args.save THEN n ELSE 0
              /\ map_frame' = IF args.save THEN n - 1 ELSE -1
              /\ map_period' = IF args.save
                               THEN <<frame_year(d, n - 1), frame_month(n - 1)>>
                               ELSE <<0, 0>>
    /\ map_anim' = FuncAnimation(200)
    /\ map_pc' = "show"
    /\ map_exit' = -1
    /\ map_last' = "create_animation"
    /\ UNCHANGED <<data_exists, data_rows, args>>

\* main.py main, lines 69-88, with RainfallMapAnimator.create_animation, lines
\* 56-88: load_data once more, the frame count, the empty scatter plot, the
\* animation and, with --save, the export of every frame; main then either
\* shows the window or returns 0
MapCreateAnimation ==
    /\ map_pc = "loaded"
    /\ ~args.static
    /\ \E seed \in Seeds :
          LET d == map_load_data(data_exists, data_rows, seed)
              range == get_date_range(d)
              n == (range[2] - range[1] + 1) * 12
              view == IF args.save
                      THEN save([scatter |-> EmptyScatter, title |-> BaseTitle], d, 0, n)
                      ELSE [scatter |-> EmptyScatter, title |-> BaseTitle]
          IN  /\ data' = d
              /\ total_frames' = n
              /\ scatter' = view.scatter
              /\ title' = view.title
              /\ saved_frames' = IF args.save THEN n ELSE 0
              /\ map_frame' = IF args.save THEN n - 1 ELSE -1
              /\ map_period' = IF args.save
                               THEN <<frame_year(d, n - 1), frame_month(n - 1)>>
                               ELSE <<0, 0>>
    /\ map_anim' = [FuncAnimation(200) EXCEPT !.running = ~args.save]
    /\ map_pc' = IF args.save THEN "exit" ELSE "show"
    /\ map_exit' = IF args.save THEN 0 ELSE -1
    /\ map_last' = "create_animation"
    /\ UNCHANGED <<data_exists, data_rows, args>>

\* one timer tick of the animation in the window: animate_frame with the next
\* frame of the iterator
MapTick ==
    /\ map_pc = "show"
    /\ map_anim.running
    /\ LET view == animate_frame([scatter |-> scatter, title |-> title], data,
                                 map_anim.frame_seq)
       IN  scatter' = view.scatter /\ title' = view.title
    /\ map_frame' = map_anim.frame_seq
    /\ map_period' = <<frame_year(data, map_anim.frame_seq), frame_month(map_anim.frame_seq)>>
    /\ map_anim' = next_frame(map_anim, total_frames)
    /\ map_last' = "tick"
    /\ UNCHANGED <<data_exists, data_rows, args, data, total_frames, saved_frames, map_pc,
                   map_exit>>

\* the user closes the window: plt.show() returns and main returns 0, line 101
MapClose ==
    /\ map_pc \in {"show", "show_static"}
    /\ map_pc' = "exit"
    /\ map_exit' = 0
    /\ map_last' = "close"
    /\ UNCHANGED <<data_exists, data_rows, args, data, total_frames, scatter, title,
                   map_anim, map_frame, map_period, saved_frames>>

\* ------------------------------------------------------------ the process
\* One run executes one of the two programs; the other one's state is idle.
HKIdle ==
    /\ csv_exists = FALSE
    /\ csv_rows = <<>>
    /\ df = <<>>
    /\ monthly_data = <<>>
    /\ years_to_animate = <<>>
    /\ base_interval = 0
    /\ current_speed = 1
    /\ anim = NoAnimation
    /\ btn_color = [b \in 1..3 |-> "lightgray"]
    /\ bar_frame = NoFrame
    /\ shown_index = -1
    /\ prev_index = -1
    /\ hk_pc = "idle"
    /\ hk_exit = -1
    /\ hk_msgs = {}
    /\ hk_last = "none"

MapIdle ==
    /\ data_exists = FALSE
    /\ data_rows = <<>>
    /\ args = [static |-> FALSE, save |-> FALSE, year |-> 2020, month |-> 7]
    /\ data = NoData
    /\ total_frames = 0
    /\ scatter = EmptyScatter
    /\ title = BaseTitle
    /\ map_anim = NoAnimation
    /\ map_frame = -1
    /\ map_period = <<0, 0>>
    /\ saved_frames = 0
    /\ map_pc = "idle"
    /\ map_exit = -1
    /\ map_last = "none"

\* no point size computed yet
NoSize == [animate |-> -1, static |-> -1]

ProbeIdle == probe_value = 0 /\ probe_color = "" /\ probe_size = NoSize

Init == (HKInit /\ MapIdle /\ ProbeIdle) \/ (MapInit /\ HKIdle /\ ProbeIdle)

Next ==
    \/ HKLoad /\ UNCHANGED <<map_vars, probe_vars>>
    \/ HKAggregate /\ UNCHANGED <<map_vars, probe_vars>>
    \/ HKCreateAnimation /\ UNCHANGED <<map_vars, probe_vars>>
    \/ HKTick /\ UNCHANGED <<map_vars, probe_vars>>
    \/ HKSetSpeed /\ UNCHANGED <<map_vars, probe_vars>>
    \/ HKClose /\ UNCHANGED <<map_vars, probe_vars>>
    \/ MapLoad /\ UNCHANGED <<hk_vars, probe_vars>>
    \/ MapStatic /\ UNCHANGED <<hk_vars, probe_vars>>
    \/ MapCreateAnimation /\ UNCHANGED <<hk_vars, probe_vars>>
    \/ MapTick /\ UNCHANGED <<hk_vars, probe_vars>>
    \/ MapClose /\ UNCHANGED <<hk_vars, probe_vars>>

Spec == Init /\ [][Next]_vars

\* ------------------------------------------- get_bar_color on its own
ColorInit ==
    /\ HKIdle
    /\ MapIdle
    /\ probe_value \in 0..MaxProbe
    /\ probe_color = ""
    /\ probe_size = NoSize

\* one call of get_bar_color
Paint ==
    /\ probe_color = ""
    /\ probe_color' = get_bar_color(probe_value)
    /\ UNCHANGED <<probe_value, probe_size, hk_vars, map_vars>>

SpecColor == ColorInit /\ [][Paint]_vars

\* ------------------------------------------- the point size on its own
\* the amounts given to the two np.clip lines, in hundredths of a millimetre
SizeInit ==
    /\ HKIdle
    /\ MapIdle
    /\ probe_value \in (-MinSizeProbe)..MaxSizeProbe
    /\ probe_color = ""
    /\ probe_size = NoSize

\* line 107 of animate_frame, for one amount
SizeAnimate ==
    /\ probe_size.animate = -1
    /\ probe_size' = [probe_size EXCEPT !.animate = point_size(probe_value)]
    /\ UNCHANGED <<probe_value, probe_color, hk_vars, map_vars>>

\* line 133 of show_static_frame, for one amount
SizeStatic ==
    /\ probe_size.static = -1
    /\ probe_size' = [probe_size EXCEPT !.static = static_point_size(probe_value)]
    /\ UNCHANGED <<probe_value, probe_color, hk_vars, map_vars>>

SizeNext == SizeAnimate \/ SizeStatic

SpecSize == SizeInit /\ [][SizeNext]_vars

\* ------------------------------------- the loader and the aggregator alone
\* The rows of the files given to load_data on its own: every kind of amount
\* field on a date of the calendar, and rows off the calendar.
LoadRows ==
    { Row(Num(1990), Num(6), Num(15), Dec(12050)),
      Row(Num(1990), Num(6), Num(16), Num(7)),
      Row(Num(1990), Num(6), Num(17), Txt("***")),
      Row(Num(1990), Num(6), Num(18), Empty),
      Row(Num(1990), Num(6), Num(19), Txt("Trace")),
      Row(Num(1990), Num(6), Num(20), Txt(TRACE_ZH)),
      Row(Num(1990), Num(6), Num(21), Txt("#")),
      Row(Num(1990), Num(7), Num(1), Dec(-500)),
      Row(Num(1990), Num(13), Num(1), Dec(1000)),
      Row(Num(1990), Num(0), Num(1), Dec(1000)),
      Row(Num(1990), Num(2), Num(30), Dec(1000)) }

LoadFiles == SeqsUpTo(LoadRows, MaxLoadRows)

LoadInit ==
    /\ csv_exists \in BOOLEAN
    /\ csv_rows \in (IF csv_exists THEN LoadFiles ELSE {<<>>})
    /\ df = <<>>
    /\ monthly_data = <<>>
    /\ years_to_animate = <<>>
    /\ base_interval = 0
    /\ current_speed = 1
    /\ anim = NoAnimation
    /\ btn_color = [b \in 1..3 |-> "lightgray"]
    /\ bar_frame = NoFrame
    /\ shown_index = -1
    /\ prev_index = -1
    /\ hk_pc = "start"
    /\ hk_exit = -1
    /\ hk_msgs = {}
    /\ hk_last = "none"
    /\ MapIdle
    /\ ProbeIdle

LoadNext ==
    \/ HKLoad /\ UNCHANGED <<map_vars, probe_vars>>
    \/ HKAggregate /\ UNCHANGED <<map_vars, probe_vars>>

SpecLoad == LoadInit /\ [][LoadNext]_vars

\* ------------------------------------------------------------------ claims
\* the bar-chart program is past calculate_monthly_totals
HKAggregated ==
    hk_last \in {"calculate_monthly_totals", "create_animation", "tick", "set_speed", "close"}

\* C1: a speed change during playback at index i leaves the next rendered
\* frame at index i + 1 (index 0 only after the last index), never a restart.
C1_SetSpeedKeepsPosition ==
    [][(hk_last = "set_speed" /\ hk_last' = "tick" /\ shown_index # -1)
          => shown_index' = (shown_index + 1) % Len(years_to_animate)]_vars

\* the records of the period of a frame index of the map animation
PeriodRecords(frame) ==
    IF data.sample
    THEN SamplePeriod(data.seed, 1924 + frame \div 12, (frame % 12) + 1)
    ELSE SelectSeq(data.rows, LAMBDA r : r.year = get_date_range(data)[1] + frame \div 12
                                         /\ r.month = (frame % 12) + 1)

\* C2: after a tick for frame index f the map shows exactly the points of the
\* records of the period of f, and no point when the period has no record.
C2_FrameShowsItsPeriod ==
    map_last = "tick"
        => /\ Len(scatter.offsets) = Len(PeriodRecords(map_frame))
           /\ \A i \in 1..Len(scatter.offsets) :
                 /\ scatter.offsets[i] = <<PeriodRecords(map_frame)[i].longitude,
                                           PeriodRecords(map_frame)[i].latitude>>
                 /\ scatter.array[i] = PeriodRecords(map_frame)[i].rainfall

\* a row load_data is meant to keep: numeric year, month and day that form a
\* date of the calendar, and a rainfall amount that is not missing
WellFormed(row) ==
    /\ row.Year.kind = "int" /\ row.Month.kind = "int" /\ row.Day.kind = "int"
    /\ row.Year.num >= 0
    /\ row.Month.num \in 1..12
    /\ row.Day.num \in 1..DaysInMonth(row.Year.num, row.Month.num)
    /\ \/ row.Rainfall_mm.kind \in {"dec", "int"}
       \/ row.Rainfall_mm.kind = "text" /\ row.Rainfall_mm.txt = "Trace"

WellFormedRows == SelectSeq(csv_rows, WellFormed)

\* C3: a malformed row is dropped: load_data succeeds on every file that
\* exists and retains every valid row, in file order.
C3_MalformedRowsDropped ==
    (hk_last = "load_data" /\ csv_exists)
        => /\ hk_pc = "loaded"
           /\ Len(df) = Len(WellFormedRows)
           /\ \A i \in 1..Len(df) :
                 /\ df[i].Year = WellFormedRows[i].Year.num
                 /\ df[i].Month = WellFormedRows[i].Month.num
                 /\ df[i].Day = WellFormedRows[i].Day.num

\* C4: with the data file missing, the map program goes on with sample data
\* and the bar-chart program prints a message and ends with a status other
\* than 0; no program ends with status 0 having neither data nor a fallback.
C4_MissingFilePolicy ==
    /\ (map_pc \notin {"idle", "start"} /\ ~data_exists)
          => data.sample /\ Len(get_data_for_period(data, 1924, 1)) > 0
    /\ (hk_pc = "exit" /\ ~csv_exists /\ hk_last = "load_data")
          => /\ "Failed to load data. Please check the CSV file." \in hk_msgs
             /\ hk_exit # 0

RECURSIVE PeriodTotal(_, _, _)
\* the arithmetic sum of the amounts of the first n records that lie in
\* period p
PeriodTotal(recs, p, n) ==
    IF n = 0 THEN 0
    ELSE PeriodTotal(recs, p, n - 1)
         + (IF <<recs[n].Year, recs[n].Month>> = p THEN recs[n].Rainfall_mm.v ELSE 0)

\* C5: for every period with a retained record the monthly summary holds the
\* arithmetic sum of the amounts of the retained records of the period.
C5_SumPreservation ==
    HKAggregated =>
        \A i \in 1..Len(df) :
            \E k \in 1..Len(monthly_data) :
                /\ monthly_data[k].Year = df[i].Year
                /\ monthly_data[k].Month = df[i].Month
                /\ monthly_data[k].Rainfall_mm
                      = PeriodTotal(df, <<df[i].Year, df[i].Month>>, Len(df))

\* the rows 1990,6,15,120.5 and 1990,6,20,30.0 gave one summary of 150.5
C5_Witness ==
    /\ HKAggregated
    /\ csv_rows = <<Row(Num(1990), Num(6), Num(15), Dec(12050)),
                    Row(Num(1990), Num(6), Num(20), Dec(3000))>>
    /\ Len(monthly_data) = 1
    /\ monthly_data[1].YearMonth = <<1990, 6>>
    /\ monthly_data[1].Rainfall_mm = 15050

\* the periods of the rows of the file that are retained: a date of the
\* calendar and an amount that is not missing
RetainedPeriods ==
    {<<csv_rows[i].Year.num, csv_rows[i].Month.num>> :
        i \in {j \in 1..Len(csv_rows) : WellFormed(csv_rows[j])}}

\* C6: monthly_data holds exactly one summary per period with a retained
\* record and none for any other period.
C6_OneSummaryPerPeriod ==
    HKAggregated =>
        /\ {<<monthly_data[k].Year, monthly_data[k].Month>> : k \in 1..Len(monthly_data)}
              = RetainedPeriods
        /\ Len(monthly_data) = Cardinality(RetainedPeriods)

\* a file with a month that has only a missing amount, next to a month with
\* an amount: one summary, none for July 1990
C6_Witness ==
    /\ HKAggregated
    /\ \E i \in 1..Len(csv_rows) :
          csv_rows[i] = Row(Num(1990), Num(7), Num(1), Txt("***"))
    /\ Len(monthly_data) = 1
    /\ \A k \in 1..Len(monthly_data) : monthly_data[k].YearMonth # <<1990, 7>>

\* C7: monthly_data is sorted strictly ascending by (year, month), whatever
\* the order of the rows in the file.
C7_SortedByPeriod ==
    HKAggregated =>
        \A i, j \in 1..Len(monthly_data) :
            i < j => PeriodBefore(<<monthly_data[i].Year, monthly_data[i].Month>>,
                                  <<monthly_data[j].Year, monthly_data[j].Month>>)

\* a file whose rows come in descending order of date: 1991, 1990, 1989
C7_Witness ==
    /\ HKAggregated
    /\ Len(df) = 3
    /\ df[1].Year = 1991 /\ df[2].Year = 1990 /\ df[3].Year = 1989
    /\ Len(monthly_data) = 3
    /\ monthly_data[1].Year = 1989

Gradient == {blues[i] : i \in 1..Len(blues)}

\* C9: an amount below 50 is given the warm colour, an amount from 50 to 600,
\* both ends included, one of the five gradient colours, and an amount above
\* 600 the dark colour.
C9_Bands ==
    probe_color # "" =>
        /\ probe_value < 50 * Unit => probe_color = "#FFD700"
        /\ (50 * Unit <= probe_value /\ probe_value <= 600 * Unit) => probe_color \in Gradient
        /\ probe_value > 600 * Unit => probe_color = "#000000"

\* exactly 600.0 was painted with a gradient colour
C9_Witness == probe_value = 600 * Unit /\ probe_color \in Gradient

\* the amount monthly_data holds for a year and month, 0 when it holds none
ValueOf(year, month) ==
    IF \E k \in 1..Len(monthly_data) :
          monthly_data[k].Year = year /\ monthly_data[k].Month = month
    THEN monthly_data[CHOOSE k \in 1..Len(monthly_data) :
            monthly_data[k].Year = year /\ monthly_data[k].Month = month].Rainfall_mm
    ELSE 0

\* C10: a rendered bar frame has exactly 12 values in calendar order, 0 for a
\* month without summary, and 12 labels, one per bar, each with the rounded
\* amount of its bar.
C10_TwelveBars ==
    bar_frame.drawn =>
        /\ Len(bar_frame.values) = 12
        /\ \A m \in 1..12 : bar_frame.values[m] = ValueOf(bar_frame.year, m)
        /\ Len(bar_frame.colors) = 12
        /\ Len(bar_frame.labels) = 12
        /\ \A m \in 1..12 :
              /\ bar_frame.labels[m].text * Unit - bar_frame.values[m] \in -50..50
              /\ bar_frame.labels[m].y >= LABEL_FLOOR

\* a year with three populated months: 12 bars, 9 of them at zero, 12 labels
C10_Witness ==
    /\ bar_frame.drawn
    /\ Cardinality({k \in 1..Len(monthly_data) : monthly_data[k].Year = bar_frame.year}) = 3
    /\ Len(bar_frame.values) = 12
    /\ Cardinality({m \in 1..12 : bar_frame.values[m] = 0}) = 9
    /\ Len(bar_frame.labels) = 12

RECURSIVE YearSum(_, _)
\* the sum of the amounts monthly_data holds for the months 1..m of a year
YearSum(year, m) == IF m = 0 THEN 0 ELSE YearSum(year, m - 1) + ValueOf(year, m)

\* C11: in a rendered bar frame the total is the sum of the 12 zero-filled
\* monthly values, the mean is that total over 12, and the wettest and the
\* driest month are the first month in calendar order holding the greatest
\* and the least of the 12 values.
C11_Statistics ==
    bar_frame.drawn =>
        /\ bar_frame.total = YearSum(bar_frame.year, 12)
        /\ bar_frame.avg.num = bar_frame.total /\ bar_frame.avg.den = 12
        /\ bar_frame.wettest \in 0..11
        /\ \A m \in 1..12 : bar_frame.values[m] <= bar_frame.values[bar_frame.wettest + 1]
        /\ \A m \in 1..bar_frame.wettest :
              bar_frame.values[m] < bar_frame.values[bar_frame.wettest + 1]
        /\ bar_frame.driest \in 0..11
        /\ \A m \in 1..12 : bar_frame.values[m] >= bar_frame.values[bar_frame.driest + 1]
        /\ \A m \in 1..bar_frame.driest :
              bar_frame.values[m] > bar_frame.values[bar_frame.driest + 1]

\* 1990 with Trace in January and 150.5 in June: ten months tie at 0, February
\* is reported driest and June wettest
C11_Witness ==
    /\ bar_frame.drawn
    /\ bar_frame.values[1] = TRACE
    /\ bar_frame.values[6] = 15050
    /\ Cardinality({m \in 1..12 : bar_frame.values[m] = 0}) = 10
    /\ bar_frame.driest = 1
    /\ bar_frame.wettest = 5
    /\ bar_frame.total = 15051

\* load_data has returned True
HKLoaded == hk_last # "none" /\ "Error loading data" \notin hk_msgs

\* year, month and day of a row are numbers that form a date of the calendar
ValidDate(row) ==
    /\ row.Year.kind = "int" /\ row.Month.kind = "int" /\ row.Day.kind = "int"
    /\ row.Month.num \in 1..12
    /\ row.Day.num \in 1..DaysInMonth(row.Year.num, row.Month.num)

\* the amount of a field, in hundredths, as a set that is empty for no
\* amount: a numeric literal gives its number, a text in traces gives 0.01,
\* and '***', an empty field and every other text give no amount
AmountOf(field, traces) ==
    IF field.kind = "dec" THEN {field.num}
    ELSE IF field.kind = "int" THEN {field.num * Unit}
    ELSE IF field.kind = "text" /\ field.txt \in traces THEN {1}
    ELSE {}

\* the rows of the file with a date of the calendar and an amount
KeptRows(traces) ==
    SelectSeq(csv_rows, LAMBDA row : ValidDate(row) /\ AmountOf(row.Rainfall_mm, traces) # {})

\* df holds the rows with an amount, in file order, each with its amount
ParsedAs(traces) ==
    /\ Len(df) = Len(KeptRows(traces))
    /\ \A i \in 1..Len(df) :
          /\ df[i].Day = KeptRows(traces)[i].Day.num
          /\ ~df[i].Rainfall_mm.nan
          /\ {df[i].Rainfall_mm.v} = AmountOf(KeptRows(traces)[i].Rainfall_mm, traces)

\* C12 as stated: a numeric literal gives its number, '***' and an empty field
\* give no amount, 'Trace' gives 0.01 and every other text gives no amount;
\* the rows without amount are not among the records that are aggregated.
C12_OnlyTraceIsAnAmount == HKLoaded => ParsedAs({"Trace"})

\* C12 amended: as stated, but with two texts that give 0.01: 'Trace' and the
\* Chinese word for it, the second literal of line 57.
C12_ValueParsing == HKLoaded => ParsedAs({"Trace", TRACE_ZH})

\* a file with the Chinese trace word and a '#': one record, of 0.01
C12_Witness ==
    /\ HKLoaded
    /\ csv_rows = <<Row(Num(1990), Num(6), Num(20), Txt(TRACE_ZH)),
                    Row(Num(1990), Num(6), Num(21), Txt("#"))>>
    /\ Len(df) = 1
    /\ df[1].Rainfall_mm = Float(TRACE)

\* C13: every record retained after loading has an amount that is not
\* negative and a month of the calendar, in the bar-chart program and in the
\* map program: no row of the file with a negative amount or a month outside
\* 1..12 is among the records that are aggregated or rendered.
C13_RetainedRecordsValid ==
    /\ HKLoaded => \A i \in 1..Len(df) :
                      df[i].Rainfall_mm.v >= 0 /\ df[i].Month \in 1..12
    /\ \A k \in 1..Len(monthly_data) : monthly_data[k].Rainfall_mm >= 0
    /\ (map_pc \notin {"idle", "start"} /\ ~data.sample)
          => \A i \in 1..Len(data.rows) :
                data.rows[i].rainfall >= 0 /\ data.rows[i].month \in 1..12
    /\ \A i \in 1..Len(scatter.array) : scatter.array[i] >= 0

\* C14: the export and the playback in the window never run in the same run
\* of the map program: with a save path the animation branch writes every
\* frame to the file in one step and ends without opening the window, and
\* the window plays the animation only when no save path was given.
C14_ExportNotWithPlayback ==
    /\ map_pc = "show" => ~args.save /\ saved_frames = 0
    /\ map_last = "tick" => ~args.save /\ saved_frames = 0
    /\ map_anim.running => ~args.save
    /\ (args.save /\ ~args.static /\ map_last = "create_animation")
          => saved_frames = total_frames /\ total_frames > 0 /\ map_pc = "exit"
    /\ saved_frames > 0 => args.save /\ map_pc = "exit" /\ ~map_anim.running

\* a run with --save on a file of the years 2000 and 2001: 24 frames written,
\* the process at its end
C14_Witness ==
    /\ args.save
    /\ ~args.static
    /\ map_last = "create_animation"
    /\ saved_frames = 24
    /\ map_pc = "exit"
    /\ ~map_anim.running

\* both np.clip lines have given their size for probe_value
Sized == probe_size.animate # -1 /\ probe_size.static # -1

\* C15: the point size of an amount is twice the amount, but 20 when that is
\* less and 200 when that is more; it is never below 20 or above 200, does
\* not decrease when the amount grows, is 20 for 0 and for 10 and 200 for
\* 1000; the animated frame and the static frame give the same size.
C15_PointSize ==
    Sized =>
        /\ probe_size.animate = probe_size.static
        /\ probe_size.animate >= 20 * Unit /\ probe_size.animate <= 200 * Unit
        /\ 2 * probe_value < 20 * Unit => probe_size.animate = 20 * Unit
        /\ 2 * probe_value > 200 * Unit => probe_size.animate = 200 * Unit
        /\ (2 * probe_value >= 20 * Unit /\ 2 * probe_value <= 200 * Unit)
              => probe_size.animate = 2 * probe_value
        /\ probe_size.animate <= point_size(probe_value + 1)
        /\ probe_size.static <= static_point_size(probe_value + 1)
        /\ probe_value = 0 => probe_size.animate = 20 * Unit
        /\ probe_value = 10 * Unit => probe_size.animate = 20 * Unit
        /\ probe_value = 1000 * Unit => probe_size.animate = 200 * Unit

\* the amount 1000 was given the size 200 by both lines
C15_Witness ==
    /\ probe_value = 1000 * Unit
    /\ probe_size.animate = 200 * Unit
    /\ probe_size.static = 200 * Unit

\* C16: once the data is loaded no later operation replaces or changes it: the
\* records of the map loader, the daily records and the monthly summaries of
\* the bar chart stay what they were when they were loaded and summarised,
\* also with sample data in place of a missing file.
C16_DataReadOnly ==
    [][/\ map_pc \notin {"idle", "start"} => data' = data
       /\ hk_pc \notin {"idle", "start"} => df' = df
       /\ HKAggregated => monthly_data' = monthly_data]_vars

\* the place of a gradient colour in the table, from 0 (lightest) to 4
GradientIndex(color) == (CHOOSE i \in 1..Len(blues) : blues[i] = color) - 1

\* C17: an amount v from 50 to 600 is given the gradient colour at the whole
\* part of 4 * (v - 50) / 550, which lies in the table of five colours and
\* does not go down when v grows; each of the five colours is given to some
\* amount: the k-th one to 50 + k * 137.5.
C17_GradientMonotone ==
    (probe_color # "" /\ probe_value >= 50 * Unit /\ probe_value <= 600 * Unit)
        => /\ probe_color \in Gradient
           /\ GradientIndex(probe_color) * 550 * Unit <= 4 * (probe_value - 50 * Unit)
           /\ \/ 4 * (probe_value - 50 * Unit) < (GradientIndex(probe_color) + 1) * 550 * Unit
              \/ probe_value = 600 * Unit /\ GradientIndex(probe_color) = 4
           /\ probe_value < 600 * Unit
                 => /\ get_bar_color(probe_value + 1) \in Gradient
                    /\ GradientIndex(probe_color)
                          <= GradientIndex(get_bar_color(probe_value + 1))
           /\ \A k \in 0..4 :
                 probe_value = 50 * Unit + k * 13750 => probe_color = blues[k + 1]

\* 325.0, half way up the band, was painted with the third colour
C17_Witness ==
    /\ probe_value = 32500
    /\ probe_color = blues[3]
    /\ get_bar_color(probe_value - 1) = blues[2]

\* the years of the records the map program holds
DataYears ==
    IF data.sample THEN 1924..2023 ELSE {data.rows[i].year : i \in 1..Len(data.rows)}

MinYear == CHOOSE y \in DataYears : \A z \in DataYears : y <= z
MaxYear == CHOOSE y \in DataYears : \A z \in DataYears : y >= z

\* C18: the frame count is 12 times the number of years from the first to the
\* last year of the data, and the call for frame index f computes the period
\* that comes f months after January of the first year: the indices from 0 to
\* total_frames - 1 give every month from January of the first year to
\* December of the last one once and in ascending order, the month always in
\* 1..12 and the year never after the last year.
C18_FramePeriods ==
    map_frame # -1 =>
        /\ total_frames = (MaxYear - MinYear + 1) * 12
        /\ map_frame \in 0..(total_frames - 1)
        /\ map_period[2] \in 1..12
        /\ map_period[1] \in MinYear..MaxYear
        /\ (map_period[1] - MinYear) * 12 + (map_period[2] - 1) = map_frame

\* the last frame of a file of the years 2000 and 2001 in the window:
\* December 2001
C18_Witness ==
    /\ map_last = "tick"
    /\ ~data.sample
    /\ total_frames = 24
    /\ map_frame = 23
    /\ map_period = <<2001, 12>>

====
